---------------------------- MODULE Spec2Model ----------------------------
(* Relay service of src/server.js: three POST handlers (/translate,        *)
(* /suggest-reply, /synthesize-speech), each guarding on a credential and  *)
(* on field presence, issuing one outbound fetch, and mapping the upstream *)
(* result onto one JSON response.                                          *)
(*                                                                         *)
(* Strings are sequences of one-character strings; fixed pieces of text    *)
(* (template and message literals) are single elements of such sequences.  *)
(* An optional value is a sequence of length 0 (absent/undefined) or 1.    *)
EXTENDS Naturals, Sequences, FiniteSets, TLC

VARIABLES GEMINI_API_KEY, TTS_API_KEY, pc, req, outbound, settled, loc, sent, crashed

vars == <<GEMINI_API_KEY, TTS_API_KEY, pc, req, outbound, settled, loc, sent, crashed>>

(* ------------------------------ bounds ------------------------------- *)
\* requests that may be in flight together
MaxReq == 2
\* longest candidate text the stub upstream returns in the one-request runs
MaxLen == 5

(* ------------------------- JavaScript strings ------------------------ *)
SP == " "
LF == "\n"
WhiteSpace == {SP, LF}

RECURSIVE trimStart(_)
trimStart(s) == IF s # <<>> /\ Head(s) \in WhiteSpace THEN trimStart(Tail(s)) ELSE s

RECURSIVE trimEnd(_)
trimEnd(s) ==
    IF s # <<>> /\ s[Len(s)] \in WhiteSpace THEN trimEnd(SubSeq(s, 1, Len(s) - 1)) ELSE s

\* String.prototype.trim
trim(s) == trimEnd(trimStart(s))

\* String.prototype.includes for a one-character needle
includes(s, c) == \E i \in 1..Len(s) : s[i] = c

\* String.prototype.split for a one-character separator
RECURSIVE split(_, _)
split(s, sep) ==
    IF ~includes(s, sep) THEN <<s>>
    ELSE LET i == CHOOSE k \in 1..Len(s) : s[k] = sep /\ \A j \in 1..(k - 1) : s[j] # sep
         IN  <<SubSeq(s, 1, i - 1)>> \o split(SubSeq(s, i + 1, Len(s)), sep)

\* s occurs in t as a contiguous piece
IsSubstr(s, t) ==
    \E i \in 0..Len(t) : i + Len(s) <= Len(t) /\ SubSeq(t, i + 1, i + Len(s)) = s

(* --------------------------- configuration --------------------------- *)
\* process.env.X ? process.env.X.trim() : null   (null is the absent option)
LoadKey(env) == IF env # <<>> /\ env[1] # <<>> THEN <<trim(env[1])>> ELSE <<>>

\* !KEY : null and the empty string are falsy
KeyMissing(key) == key = <<>> \/ key[1] = <<>>

(* --------------------------- request bodies -------------------------- *)
Absent == [t |-> "absent", s |-> <<>>]
Str(s) == [t |-> "str", s |-> s]
\* a non-zero JSON number
Num == [t |-> "num", s |-> <<>>]

\* JavaScript truthiness of a destructured body field
Truthy(f) == (f.t = "str" /\ f.s # <<>>) \/ f.t = "num"

Body(text, sourceLang, targetLang, language, langCode) ==
    [text |-> text, sourceLang |-> sourceLang, targetLang |-> targetLang,
     language |-> language, langCode |-> langCode]

(* -------------------------- upstream payloads ------------------------ *)
NoData == [json |-> FALSE, null |-> FALSE, error |-> <<>>, candidates |-> <<>>,
           audioContent |-> <<>>]
\* a body that is not a JSON document
NotJson == NoData
JNull == [NoData EXCEPT !.json = TRUE, !.null = TRUE]
Obj(error, candidates, audioContent) ==
    [json |-> TRUE, null |-> FALSE, error |-> error, candidates |-> candidates,
     audioContent |-> audioContent]
\* {error: {message: m}} ; message is optional
ErrObj(message) == [message |-> message]
\* one candidate; text stands for content.parts[0].text and is optional
Cand(text) == [text |-> text]

(* --------------------------- client responses ------------------------ *)
Reply(status, error, details, translation, suggestions, payload) ==
    [status |-> status, error |-> error, details |-> details,
     translation |-> translation, suggestions |-> suggestions, payload |-> payload]

ErrorReply(status, error, details) == Reply(status, <<error>>, details, <<>>, <<>>, <<>>)

(* ------------------------- steps of a handler ------------------------ *)
NoCall == [api |-> "none", url |-> <<>>, template |-> "none", text |-> Absent,
           lang1 |-> Absent, lang2 |-> Absent, ssmlGender |-> "", audioEncoding |-> ""]
NoReply == Reply(0, <<>>, <<>>, <<>>, <<>>, <<>>)

\* what a stretch of handler code ends in: a response (res.json), a throw,
\* an outbound fetch that is awaited, or an awaited response.json()
DoReply(reply) == [kind |-> "reply", reply |-> reply, call |-> NoCall, message |-> <<>>]
DoThrow(message) == [kind |-> "throw", reply |-> NoReply, call |-> NoCall, message |-> message]
DoFetch(call) == [kind |-> "fetch", reply |-> NoReply, call |-> call, message |-> <<>>]
DoJson == [kind |-> "json", reply |-> NoReply, call |-> NoCall, message |-> <<>>]
\* the credential guard passed: control enters the try block
Enter == [kind |-> "enter", reply |-> NoReply, call |-> NoCall, message |-> <<>>]

GeminiUrl(key) ==
    <<"https://generativelanguage.googleapis.com/v1beta/models/gemini-1.5-flash-latest:generateContent?key=">>
    \o key
TtsUrl(key) == <<"https://texttospeech.googleapis.com/v1/text:synthesize?key=">> \o key

\* new Error(m).message : an undefined message becomes the empty string
ErrorOf(m) == IF m = <<>> THEN <<>> ELSE m[1]

\* data.error ? data.error.message : `<prefix>${response.statusText}`
\* (reading .error of null throws a TypeError)
UpstreamFailure(prefix, response, data) ==
    IF data.null THEN DoThrow(<<"Cannot read properties of null (reading 'error')">>)
    ELSE IF data.error # <<>> THEN DoThrow(ErrorOf(data.error[1].message))
    ELSE DoThrow(<<prefix>> \o response.statusText)

(* ------------------------------ /translate --------------------------- *)
TranslateGuard(key) ==
    IF KeyMissing(key)
    THEN DoReply(ErrorReply(500, <<"Gemini API key is not configured on the server.">>, <<>>))
    ELSE Enter

TranslateMissing_NoTarget(body) == ~Truthy(body.text) \/ ~Truthy(body.sourceLang)

TranslateMissing(body) ==
    ~Truthy(body.text) \/ ~Truthy(body.sourceLang) \/ ~Truthy(body.targetLang)

\* const isSingleWord = !text.includes(' ')
isSingleWord_Always(text) == TRUE

isSingleWord(text) == ~includes(text, SP)

TranslatePrompt(key, body) ==
    [api |-> "gemini", url |-> GeminiUrl(key),
     template |-> IF isSingleWord(body.text.s) THEN "Translate the word" ELSE "Translate the following text",
     text |-> body.text, lang1 |-> body.sourceLang, lang2 |-> body.targetLang,
     ssmlGender |-> "", audioEncoding |-> ""]

TranslateBody(key, body) ==
    IF TranslateMissing(body) THEN DoReply(ErrorReply(400, <<"Missing required fields">>, <<>>))
    ELSE IF body.text.t # "str" THEN DoThrow(<<"text.includes is not a function">>)
    ELSE DoFetch(TranslatePrompt(key[1], body))

TranslateAfterFetch(response) == DoJson

TranslateAfterJson(response, data) ==
    IF ~response.ok THEN UpstreamFailure("API request failed: ", response, data)
    ELSE IF data.null THEN DoThrow(<<"Cannot read properties of null (reading 'candidates')">>)
    ELSE IF data.candidates = <<>> \/ data.candidates[1] = <<>>
         THEN DoThrow(<<"No translation candidate found in the API response.">>)
    ELSE IF data.candidates[1][1].text = <<>>
         THEN DoThrow(<<"Cannot read properties of undefined (reading 'parts')">>)
    ELSE DoReply(Reply(200, <<>>, <<>>, <<trim(data.candidates[1][1].text[1])>>, <<>>, <<>>))

TranslateCatch(message) == ErrorReply(500, <<"Failed to translate text">>, <<message>>)

(* ---------------------------- /suggest-reply ------------------------- *)
SuggestGuard(key) ==
    IF KeyMissing(key)
    THEN DoReply(ErrorReply(500, <<"Gemini API key is not configured on the server.">>, <<>>))
    ELSE Enter

SuggestMissing(body) == ~Truthy(body.text) \/ ~Truthy(body.language)

SuggestPrompt(key, body) ==
    [api |-> "gemini", url |-> GeminiUrl(key), template |-> "Suggest three replies",
     text |-> body.text, lang1 |-> body.language, lang2 |-> body.language,
     ssmlGender |-> "", audioEncoding |-> ""]

SuggestBody(key, body) ==
    IF SuggestMissing(body) THEN DoReply(ErrorReply(400, <<"Missing required fields">>, <<>>))
    ELSE DoFetch(SuggestPrompt(key[1], body))

SuggestAfterFetch(response) ==
    IF ~response.ok THEN DoThrow(<<"API request failed">>) ELSE DoJson

\* suggestionsText.trim().split('\n').filter(line => line.trim() !== '')
Suggestions_KeepBlank(suggestionsText) ==
    SelectSeq(split(trim(suggestionsText), LF), LAMBDA line : line # <<>>)

Suggestions(suggestionsText) ==
    SelectSeq(split(trim(suggestionsText), LF), LAMBDA line : trim(line) # <<>>)

SuggestAfterJson(response, data) ==
    IF data.null THEN DoThrow(<<"Cannot read properties of null (reading 'candidates')">>)
    ELSE IF data.candidates = <<>> THEN DoThrow(<<"Cannot read properties of undefined (reading '0')">>)
    ELSE IF data.candidates[1] = <<>>
         THEN DoThrow(<<"Cannot read properties of undefined (reading 'content')">>)
    ELSE IF data.candidates[1][1].text = <<>>
         THEN DoThrow(<<"Cannot read properties of undefined (reading 'parts')">>)
    ELSE DoReply(Reply(200, <<>>, <<>>, <<>>, <<Suggestions(data.candidates[1][1].text[1])>>, <<>>))

SuggestCatch_Details(message) ==
    ErrorReply(500, <<"Failed to generate suggestions">>, <<message>>)

SuggestCatch(message) == ErrorReply(500, <<"Failed to generate suggestions">>, <<>>)

(* -------------------------- /synthesize-speech ----------------------- *)
SynthGuard(key) ==
    IF KeyMissing(key)
    THEN DoReply(ErrorReply(500, <<"TTS API key is not configured on the server.">>, <<>>))
    ELSE Enter

SynthMissing(body) == ~Truthy(body.text) \/ ~Truthy(body.langCode)

SynthRequest(key, body) ==
    [api |-> "tts", url |-> TtsUrl(key), template |-> "synthesize",
     text |-> body.text, lang1 |-> body.langCode, lang2 |-> body.langCode,
     ssmlGender |-> "NEUTRAL", audioEncoding |-> "MP3"]

SynthBody(key, body) ==
    IF SynthMissing(body) THEN DoReply(ErrorReply(400, <<"Missing text or language code">>, <<>>))
    ELSE DoFetch(SynthRequest(key[1], body))

SynthAfterFetch(response) == DoJson

SynthAfterJson(response, data) ==
    IF ~response.ok THEN UpstreamFailure("TTS API request failed: ", response, data)
    ELSE DoReply(Reply(200, <<>>, <<>>, <<>>, <<>>, <<data>>))

SynthCatch(message) == ErrorReply(500, <<"Failed to synthesize speech">>, <<message>>)

(* ------------------------------ dispatch ----------------------------- *)
Endpoints == {"translate", "suggest", "synth"}

\* the credential check that opens each handler, before its try block
Guard_GeminiOnly(ep, gkey, tkey) ==
    CASE ep = "translate" -> TranslateGuard(gkey)
      [] ep = "suggest"   -> SuggestGuard(gkey)
      [] ep = "synth"     -> SynthGuard(gkey)

Guard(ep, gkey, tkey) ==
    CASE ep = "translate" -> TranslateGuard(gkey)
      [] ep = "suggest"   -> SuggestGuard(gkey)
      [] ep = "synth"     -> SynthGuard(tkey)

\* from the destructuring of req.body to the awaited fetch
BodyStep(ep, gkey, tkey, body) ==
    CASE ep = "translate" -> TranslateBody(gkey, body)
      [] ep = "suggest"   -> SuggestBody(gkey, body)
      [] ep = "synth"     -> SynthBody(tkey, body)

\* from the resolved fetch to the awaited response.json()
AfterFetchStep(ep, response) ==
    CASE ep = "translate" -> TranslateAfterFetch(response)
      [] ep = "suggest"   -> SuggestAfterFetch(response)
      [] ep = "synth"     -> SynthAfterFetch(response)

\* from the parsed payload to the response
AfterJsonStep(ep, response, data) ==
    CASE ep = "translate" -> TranslateAfterJson(response, data)
      [] ep = "suggest"   -> SuggestAfterJson(response, data)
      [] ep = "synth"     -> SynthAfterJson(response, data)

Catch(ep, message) ==
    CASE ep = "translate" -> TranslateCatch(message)
      [] ep = "suggest"   -> SuggestCatch(message)
      [] ep = "synth"     -> SynthCatch(message)

\* the stretches of a handler that lie inside its try block
TryCovers_NotJson(stage) == stage \in {"body", "fetch"}

TryCovers(stage) == stage \in {"body", "fetch", "json"}

\* an exception no catch block takes: the promise of the async handler rejects
Uncaught == [kind |-> "uncaught", reply |-> NoReply, call |-> NoCall, message |-> <<>>]

Try(ep, stage, step) ==
    IF step.kind # "throw" THEN step
    ELSE IF TryCovers(stage) THEN DoReply(Catch(ep, step.message))
    ELSE Uncaught

\* the synchronous part of a handler, up to its first await
Start(ep, gkey, tkey, body) ==
    LET g == Guard(ep, gkey, tkey)
    IN  IF g.kind # "enter" THEN g ELSE Try(ep, "body", BodyStep(ep, gkey, tkey, body))

\* const response = await fetch(...) : a rejection is thrown at the await
FetchStage_Retry(ep, response) ==
    IF response.state = "rejected" THEN DoFetch([NoCall EXCEPT !.api = "retry"])
    ELSE Try(ep, "fetch", AfterFetchStep(ep, response))

FetchStage(ep, response) ==
    Try(ep, "fetch",
        IF response.state = "rejected" THEN DoThrow(response.message)
        ELSE AfterFetchStep(ep, response))

\* const data = await response.json() : a body that does not parse is thrown
JsonStage(ep, response) ==
    Try(ep, "json",
        IF ~response.data.json THEN DoThrow(response.message)
        ELSE AfterJsonStep(ep, response, response.data))

(* ------------------------------ upstream ----------------------------- *)
Pending == [state |-> "pending", ok |-> FALSE, statusText |-> <<>>, data |-> NoData,
            message |-> <<>>]

\* messages of a rejected fetch: the library words them, and may quote the
\* request URL (node-fetch 2: "request to <url> failed, reason: ...")
RejectMessages(url) == {<<"request to ">> \o url \o <<" failed">>, <<"socket hang up">>}

\* messages of a rejected response.json() (node-fetch 2: "invalid json
\* response body at <url> reason: ...")
ParseMessages(url) ==
    {<<"invalid json response body at ">> \o url \o <<" reason: Unexpected token">>,
     <<"Unexpected token < in JSON at position 0">>}

StatusText(ok) == IF ok THEN <<"OK">> ELSE <<"Bad Gateway">>

\* what an outbound call to url can settle to, with payloads drawn from datas
Outcomes(url, datas) ==
    {[state |-> "rejected", ok |-> FALSE, statusText |-> <<>>, data |-> NoData, message |-> m] :
        m \in RejectMessages(url)}
    \cup
    UNION {{[state |-> "fulfilled", ok |-> ok, statusText |-> StatusText(ok), data |-> d,
             message |-> m] : m \in (IF d.json THEN {<<>>} ELSE ParseMessages(url))} :
           ok \in BOOLEAN, d \in datas}

(* ------------------------------- state ------------------------------- *)
Requests == 1..MaxReq

NoReq == [ep |-> "none", body |-> Body(Absent, Absent, Absent, Absent, Absent)]

\* the environment values the two keys are loaded from
GeminiEnv == {<<>>, << <<SP>> >>, << <<SP, "G", "1", SP>> >>}
TtsEnv == {<<>>, << <<>> >>, << <<"T", "1">> >>}

Init ==
    /\ GEMINI_API_KEY \in {LoadKey(e) : e \in GeminiEnv}
    /\ TTS_API_KEY \in {LoadKey(e) : e \in TtsEnv}
    /\ pc = [r \in Requests |-> "idle"]
    /\ req = [r \in Requests |-> NoReq]
    /\ outbound = [r \in Requests |-> <<>>]
    /\ settled = [r \in Requests |-> Pending]
    /\ loc = [r \in Requests |-> Pending]
    /\ sent = [r \in Requests |-> <<>>]
    /\ crashed = FALSE

\* a handler binds the awaited value to its own local `response`
Bind_Shared(locals, r, value) == [q \in DOMAIN locals |-> value]

Bind(locals, r, value) == [locals EXCEPT ![r] = value]

\* the effect of a stretch of handler code of request r that ended in step
Run(r, step) ==
    /\ pc' = [pc EXCEPT ![r] =
                CASE step.kind = "reply" -> "done"
                  [] step.kind = "fetch" -> "fetch"
                  [] step.kind = "json"  -> "json"
                  [] OTHER               -> "dead"]
    /\ sent' = IF step.kind = "reply" THEN [sent EXCEPT ![r] = Append(@, step.reply)] ELSE sent
    /\ outbound' = IF step.kind = "fetch" THEN [outbound EXCEPT ![r] = Append(@, step.call)]
                   ELSE outbound
    /\ crashed' = (crashed \/ step.kind = "uncaught")

\* a request arrives and its handler runs up to the first await
Arrive(r, ep, body) ==
    /\ ~crashed
    /\ pc[r] = "idle"
    /\ req' = [req EXCEPT ![r] = [ep |-> ep, body |-> body]]
    /\ Run(r, Start(ep, GEMINI_API_KEY, TTS_API_KEY, body))
    /\ UNCHANGED <<GEMINI_API_KEY, TTS_API_KEY, settled, loc>>

\* the upstream answers the outbound call of r, or the call fails
FetchSettles(r, datas) ==
    /\ ~crashed
    /\ pc[r] = "fetch"
    /\ \E outcome \in Outcomes(outbound[r][Len(outbound[r])].url, datas) :
          settled' = [settled EXCEPT ![r] = outcome]
    /\ pc' = [pc EXCEPT ![r] = "fetched"]
    /\ UNCHANGED <<GEMINI_API_KEY, TTS_API_KEY, req, outbound, loc, sent, crashed>>

\* the handler of r resumes after `await fetch`
AfterFetch(r) ==
    /\ ~crashed
    /\ pc[r] = "fetched"
    /\ loc' = Bind(loc, r, settled[r])
    /\ Run(r, FetchStage(req[r].ep, loc'[r]))
    /\ UNCHANGED <<GEMINI_API_KEY, TTS_API_KEY, req, settled>>

\* the handler of r resumes after `await response.json()`
AfterJson(r) ==
    /\ ~crashed
    /\ pc[r] = "json"
    /\ Run(r, JsonStage(req[r].ep, loc[r]))
    /\ UNCHANGED <<GEMINI_API_KEY, TTS_API_KEY, req, settled, loc>>

\* the exchange of r is over; the server goes on listening
Close(r) ==
    /\ ~crashed
    /\ pc[r] = "done"
    /\ pc' = [pc EXCEPT ![r] = "idle"]
    /\ req' = [req EXCEPT ![r] = NoReq]
    /\ outbound' = [outbound EXCEPT ![r] = <<>>]
    /\ settled' = [settled EXCEPT ![r] = Pending]
    /\ loc' = [loc EXCEPT ![r] = Pending]
    /\ sent' = [sent EXCEPT ![r] = <<>>]
    /\ UNCHANGED <<GEMINI_API_KEY, TTS_API_KEY, crashed>>

(* ------------------------------- inputs ------------------------------ *)
Word == <<"a">>
Phrase == <<"a", SP, "a">>
En == <<"e", "n">>
Quota == <<"quota exceeded">>
Abc == <<"A", "B", "C">>

Chars == {"a", SP, LF}

\* every string over Chars of length at most n
RECURSIVE Texts(_)
Texts(n) ==
    IF n = 0 THEN {<<>>}
    ELSE LET shorter == Texts(n - 1)
         IN  shorter \cup {Append(t, c) : t \in {u \in shorter : Len(u) = n - 1}, c \in Chars}

\* request bodies of concurrent runs
SomeBodies(ep) ==
    CASE ep = "translate" ->
            {Body(Str(Word), Str(En), Str(En), Absent, Absent),
             Body(Num, Str(En), Str(En), Absent, Absent),
             Body(Str(Phrase), Str(En), Absent, Absent, Absent)}
      [] ep = "suggest" ->
            {Body(t, Absent, Absent, Str(En), Absent) : t \in {Str(<<>>), Str(Word)}}
      [] ep = "synth" ->
            {Body(Str(Word), Absent, Absent, Absent, l) : l \in {Absent, Str(En)}}

\* payloads of concurrent runs
SomeData == {NotJson, Obj(<<>>, << <<Cand(<<Phrase \o <<LF>> >>), Cand(<<Word>>)>> >>, <<Abc>>)}

\* request bodies of one-request runs
FieldValues == {Absent, Str(<<>>), Str(En)}
TextValues == {Absent, Str(<<>>), Str(Word), Str(Phrase), Str(<<SP>>), Num}
AllBodies(ep) ==
    CASE ep = "translate" ->
            {Body(t, sl, tl, Absent, Absent) : t \in TextValues, sl \in FieldValues, tl \in FieldValues}
      [] ep = "suggest" ->
            {Body(t, Absent, Absent, l, Absent) : t \in TextValues, l \in FieldValues}
      [] ep = "synth" ->
            {Body(t, Absent, Absent, Absent, l) : t \in TextValues, l \in FieldValues}

\* payloads without a usable candidate text, and payloads with two candidates
EdgeData ==
    {NotJson, JNull, Obj(<<>>, <<>>, <<>>), Obj(<<ErrObj(<<>>)>>, <<>>, <<>>),
     Obj(<<ErrObj(<<Quota>>)>>, <<>>, <<>>), Obj(<<>>, << <<>> >>, <<>>),
     Obj(<<>>, << <<Cand(<<>>)>> >>, <<>>), Obj(<<>>, <<>>, <<Abc>>)}
    \cup {Obj(<<>>, << <<Cand(<<t>>), Cand(<<Word>>)>> >>, <<>>) : t \in Texts(1)}

\* payloads of one-request runs
AllData == EdgeData \cup {Obj(<<>>, << <<Cand(<<t>>)>> >>, <<>>) : t \in Texts(MaxLen)}

(* --------------------------- specifications -------------------------- *)
\* MaxReq requests in flight, settling in any order
Next ==
    \E r \in Requests :
        \/ \E ep \in Endpoints : \E body \in SomeBodies(ep) : Arrive(r, ep, body)
        \/ FetchSettles(r, SomeData)
        \/ AfterFetch(r)
        \/ AfterJson(r)
        \/ Close(r)

Spec == Init /\ [][Next]_vars

\* one request at a time against a stub upstream, all inputs
NextOne ==
    \/ \E ep \in Endpoints : \E body \in AllBodies(ep) : Arrive(1, ep, body)
    \/ FetchSettles(1, AllData)
    \/ AfterFetch(1)
    \/ AfterJson(1)
    \/ Close(1)

SpecOne == Init /\ [][NextOne]_vars

\* one request at a time, all request bodies, against an upstream that
\* fails or answers with an edge payload; the event loop runs every
\* continuation that is ready
NextEdge ==
    \/ \E ep \in Endpoints : \E body \in AllBodies(ep) : Arrive(1, ep, body)
    \/ FetchSettles(1, EdgeData)
    \/ AfterFetch(1)
    \/ AfterJson(1)
    \/ Close(1)

FairOne == Init /\ [][NextEdge]_vars /\ WF_vars(AfterFetch(1)) /\ WF_vars(AfterJson(1))

(* ============================ properties ============================= *)
\* the credential the endpoint of request r needs
NeededKey(r) == IF req[r].ep = "synth" THEN TTS_API_KEY ELSE GEMINI_API_KEY
Configured(r) == NeededKey(r) # <<>> /\ NeededKey(r)[1] # <<>>

FieldEmpty(f) == f.t = "absent" \/ (f.t = "str" /\ f.s = <<>>)
RequiredFields(r) ==
    CASE req[r].ep = "translate" -> {req[r].body.text, req[r].body.sourceLang, req[r].body.targetLang}
      [] req[r].ep = "suggest"   -> {req[r].body.text, req[r].body.language}
      [] req[r].ep = "synth"     -> {req[r].body.text, req[r].body.langCode}
      [] OTHER                   -> {}
MissingField(r) == \E f \in RequiredFields(r) : FieldEmpty(f)

Arrived(r) == pc[r] # "idle"
Answered(r) == pc[r] = "done"

BadRequest(r) ==
    [status |-> 400,
     error |-> IF req[r].ep = "synth" THEN << <<"Missing text or language code">> >>
               ELSE << <<"Missing required fields">> >>,
     details |-> <<>>, translation |-> <<>>, suggestions |-> <<>>, payload |-> <<>>]

NotConfigured(r) ==
    [status |-> 500,
     error |-> IF req[r].ep = "synth" THEN << <<"TTS API key is not configured on the server.">> >>
               ELSE << <<"Gemini API key is not configured on the server.">> >>,
     details |-> <<>>, translation |-> <<>>, suggestions |-> <<>>, payload |-> <<>>]

\* C1 as stated: a request with a required field missing or empty is
\* answered 400 with the endpoint's fixed message, in every configuration,
\* and makes no outbound call.
C1_MissingFieldIs400 ==
    \A r \in Requests :
        Arrived(r) /\ MissingField(r) =>
            Answered(r) /\ sent[r] = <<BadRequest(r)>> /\ outbound[r] = <<>>

\* C1 amended: a request with a required field missing or empty never makes
\* an outbound call, and is answered 400 with the endpoint's fixed message
\* whenever the credential its endpoint needs is configured.
C1_MissingFieldIs400WhenConfigured ==
    \A r \in Requests :
        Arrived(r) /\ MissingField(r) =>
            /\ Answered(r)
            /\ outbound[r] = <<>>
            /\ Configured(r) => sent[r] = <<BadRequest(r)>>

C1_Witness ==
    \E r \in Requests :
        /\ Answered(r) /\ MissingField(r) /\ Configured(r)
        /\ req[r].ep = "translate" /\ ~FieldEmpty(req[r].body.text)
        /\ ~FieldEmpty(req[r].body.sourceLang)
        /\ sent[r] # <<>> /\ sent[r][1].status = 400

\* C2: when the credential an endpoint needs is unset, every request to it,
\* whatever its body, is answered 500 "not configured" with no outbound
\* call; a request whose own credential is set is never answered so.
C2_UnsetCredentialIs500 ==
    \A r \in Requests :
        Arrived(r) =>
            IF Configured(r)
            THEN sent[r] # <<NotConfigured(r)>>
            ELSE Answered(r) /\ sent[r] = <<NotConfigured(r)>> /\ outbound[r] = <<>>

C2_Witness ==
    \E r \in Requests :
        /\ Answered(r) /\ req[r].ep = "synth" /\ ~MissingField(r)
        /\ ~Configured(r) /\ GEMINI_API_KEY # <<>> /\ GEMINI_API_KEY[1] # <<>>
        /\ sent[r] # <<>> /\ sent[r][1].status = 500

\* the credential values that are set
Secrets == {k \in {GEMINI_API_KEY, TTS_API_KEY} : k # <<>> /\ k[1] # <<>>}
Mentions(opt, key) == opt # <<>> /\ IsSubstr(key[1], opt[1])
Leaks(reply) ==
    \E key \in Secrets :
        \/ Mentions(reply.error, key) \/ Mentions(reply.details, key)
        \/ Mentions(reply.translation, key)
        \/ reply.suggestions # <<>> /\
              \E i \in 1..Len(reply.suggestions[1]) : IsSubstr(key[1], reply.suggestions[1][i])

\* C3: no response body sent to a client contains a credential value.
C3_NoCredentialInResponse ==
    \A r \in Requests : \A i \in 1..Len(sent[r]) : ~Leaks(sent[r][i])

Failed(outcome) == outcome.state = "rejected" \/ (outcome.state = "fulfilled" /\ ~outcome.ok)

\* C4: every error raised while handling a request is caught in its handler:
\* no exception escapes, a request has at most one response, with status
\* 200, 400 or 500, and once its outbound call has settled it is eventually
\* answered exactly once.
C4_EveryErrorAnswered ==
    /\ [](/\ ~crashed
          /\ \A r \in Requests :
                /\ pc[r] # "dead"
                /\ Len(sent[r]) <= 1
                /\ Answered(r) => Len(sent[r]) = 1
                /\ \A i \in 1..Len(sent[r]) : sent[r][i].status \in {200, 400, 500})
    /\ \A r \in Requests : (pc[r] = "fetched") ~> (Answered(r) /\ Len(sent[r]) = 1)

C4_Witness ==
    \E r \in Requests :
        /\ Answered(r) /\ settled[r].state = "fulfilled" /\ settled[r].ok
        /\ ~settled[r].data.json
        /\ Len(sent[r]) = 1 /\ sent[r][1].status = 500

\* C5: a request makes at most one outbound call, only after its credential
\* and field checks passed; it is answered only after that call settled; a
\* failed call is not retried and yields exactly one 500 response.
C5_OneCallOneResponse ==
    \A r \in Requests :
        /\ Len(outbound[r]) <= 1
        /\ Len(sent[r]) <= 1
        /\ outbound[r] # <<>> => Configured(r) /\ ~MissingField(r)
        /\ outbound[r] # <<>> /\ sent[r] # <<>> => settled[r].state # "pending"
        /\ Answered(r) /\ Failed(settled[r]) => Len(sent[r]) = 1 /\ sent[r][1].status = 500

C5_Witness ==
    \E r \in Requests :
        /\ Answered(r) /\ settled[r].state = "rejected"
        /\ Len(outbound[r]) = 1 /\ Len(sent[r]) = 1 /\ sent[r][1].status = 500

CarriesMessage(data) == data.json /\ ~data.null /\ data.error # <<>> /\ data.error[1].message # <<>>

\* C6: on /translate and /synthesize-speech a non-success upstream status is
\* answered 500 with details equal to the payload's error.message when the
\* payload carries one, and otherwise holding the upstream status text, for
\* every upstream body.
C6_DetailsFromUpstream ==
    \A r \in Requests :
        Answered(r) /\ req[r].ep \in {"translate", "synth"}
                    /\ settled[r].state = "fulfilled" /\ ~settled[r].ok =>
            /\ Len(sent[r]) = 1 /\ sent[r][1].status = 500
            /\ sent[r][1].details # <<>>
            /\ IF CarriesMessage(settled[r].data)
               THEN sent[r][1].details[1] = settled[r].data.error[1].message[1]
               ELSE IsSubstr(settled[r].statusText, sent[r][1].details[1])

GenericFailure ==
    [status |-> 500, error |-> << <<"Failed to generate suggestions">> >>, details |-> <<>>,
     translation |-> <<>>, suggestions |-> <<>>, payload |-> <<>>]

\* a settled outbound call that carries no usable first candidate text
Unusable(outcome) ==
    \/ Failed(outcome)
    \/ ~outcome.data.json \/ outcome.data.null
    \/ outcome.data.candidates = <<>> \/ outcome.data.candidates[1] = <<>>
    \/ outcome.data.candidates[1][1].text = <<>>

\* C7: on /suggest-reply every failure after validation is answered 500 with
\* exactly {error: 'Failed to generate suggestions'}, whatever the upstream
\* sent, with no details field.
C7_GenericSuggestFailure ==
    \A r \in Requests :
        Answered(r) /\ req[r].ep = "suggest" /\ outbound[r] # <<>> =>
            IF Unusable(settled[r]) THEN sent[r] = <<GenericFailure>>
            ELSE Len(sent[r]) = 1 /\ sent[r][1].status = 200

C7_Witness ==
    \E r \in Requests :
        /\ Answered(r) /\ req[r].ep = "suggest"
        /\ settled[r].state = "fulfilled" /\ ~settled[r].ok /\ CarriesMessage(settled[r].data)
        /\ sent[r] = <<GenericFailure>>

AllWhite(s) == \A i \in 1..Len(s) : s[i] \in WhiteSpace
NonBlankLines(text) == SelectSeq(split(text, LF), LAMBDA line : ~AllWhite(line))

\* a /suggest-reply request answered from a usable upstream payload
SuggestSucceeded(r) ==
    /\ Answered(r) /\ req[r].ep = "suggest" /\ outbound[r] # <<>>
    /\ ~Unusable(settled[r])
FirstText(r) == settled[r].data.candidates[1][1].text[1]

\* C8 as stated: the suggestions are exactly the non-blank lines of the first
\* candidate's text, in order, each returned as it stands in the text.
C8_SuggestionsAreNonBlankLines ==
    \A r \in Requests :
        SuggestSucceeded(r) =>
            sent[r] = <<Reply(200, <<>>, <<>>, <<>>, <<NonBlankLines(FirstText(r))>>, <<>>)>>

\* C8 amended: the suggestions are the non-blank lines of the first
\* candidate's text, in order, none added, dropped or merged, except that the
\* whitespace around the whole text is trimmed first: the first returned line
\* has lost its leading and the last its trailing whitespace. Every returned
\* element is non-empty and the length is whatever the upstream produced.
C8_SuggestionsAreLinesOfTrimmedText ==
    \A r \in Requests :
        SuggestSucceeded(r) =>
            LET lines == NonBlankLines(FirstText(r))
                n == Len(lines)
                edge(i) == LET a == IF i = 1 THEN trimStart(lines[i]) ELSE lines[i]
                           IN  IF i = n THEN trimEnd(a) ELSE a
            IN  /\ Len(sent[r]) = 1
                /\ sent[r][1] = Reply(200, <<>>, <<>>, <<>>, sent[r][1].suggestions, <<>>)
                /\ Len(sent[r][1].suggestions) = 1
                /\ Len(sent[r][1].suggestions[1]) = n
                /\ \A i \in 1..n : /\ sent[r][1].suggestions[1][i] = edge(i)
                                   /\ sent[r][1].suggestions[1][i] # <<>>

C8_Witness ==
    \E r \in Requests :
        /\ SuggestSucceeded(r)
        /\ Len(split(FirstText(r), LF)) = 3
        /\ Len(sent[r][1].suggestions[1]) = 2
        /\ sent[r][1].suggestions[1] # NonBlankLines(FirstText(r))

\* t is text without the whitespace at its two ends
IsTrimOf(t, text) ==
    \E i \in 0..Len(text) : \E j \in i..Len(text) :
        /\ t = SubSeq(text, i + 1, j)
        /\ AllWhite(SubSeq(text, 1, i)) /\ AllWhite(SubSeq(text, j + 1, Len(text)))
        /\ t = <<>> \/ (t[1] \notin WhiteSpace /\ t[Len(t)] \notin WhiteSpace)

TranslateUsable(outcome) ==
    /\ outcome.state = "fulfilled" /\ outcome.ok /\ outcome.data.json /\ ~outcome.data.null
    /\ outcome.data.candidates # <<>> /\ outcome.data.candidates[1] # <<>>
    /\ outcome.data.candidates[1][1].text # <<>>

\* C9: a valid /translate request (string text) sends one prompt, on the
\* multi-word template iff text contains a space and on the single-word one
\* otherwise, carrying text, sourceLang and targetLang; on a successful
\* upstream response the reply is {translation: t}, t being the first
\* candidate's text without its surrounding whitespace.
C9_TemplateAndTrimmedTranslation ==
    \A r \in Requests :
        req[r].ep = "translate" =>
            /\ Configured(r) /\ ~MissingField(r) /\ req[r].body.text.t = "str" =>
                  /\ Len(outbound[r]) = 1
                  /\ outbound[r][1].template =
                        IF \E i \in 1..Len(req[r].body.text.s) : req[r].body.text.s[i] = SP
                        THEN "Translate the following text" ELSE "Translate the word"
                  /\ outbound[r][1].text = req[r].body.text
                  /\ outbound[r][1].lang1 = req[r].body.sourceLang
                  /\ outbound[r][1].lang2 = req[r].body.targetLang
            /\ Answered(r) /\ outbound[r] # <<>> /\ TranslateUsable(settled[r]) =>
                  /\ Len(sent[r]) = 1
                  /\ sent[r][1] = Reply(200, <<>>, <<>>, sent[r][1].translation, <<>>, <<>>)
                  /\ Len(sent[r][1].translation) = 1
                  /\ IsTrimOf(sent[r][1].translation[1], settled[r].data.candidates[1][1].text[1])

C9_Witness ==
    \E r \in Requests :
        /\ Answered(r) /\ req[r].ep = "translate" /\ outbound[r] # <<>>
        /\ outbound[r][1].template = "Translate the following text"
        /\ TranslateUsable(settled[r])
        /\ Len(settled[r].data.candidates[1]) = 2
        /\ sent[r][1].translation # <<settled[r].data.candidates[1][1].text[1]>>

\* the response a request gets from its own body, the credentials and the
\* result of its own outbound call
Expected(ep, body, gkey, tkey, outcome) ==
    LET s == Start(ep, gkey, tkey, body)
        f == FetchStage(ep, outcome)
    IN  IF s.kind = "reply" THEN s.reply
        ELSE IF f.kind = "reply" THEN f.reply
        ELSE JsonStage(ep, outcome).reply

\* C10: with requests in flight together and their calls settling in any
\* order, the response of each is the one its own body, the credentials and
\* its own upstream result determine, and the credentials never change.
C10_RequestsIndependent ==
    /\ [](\A r \in Requests :
            /\ loc[r] \in {Pending, settled[r]}
            /\ Answered(r) =>
                  sent[r] = <<Expected(req[r].ep, req[r].body, GEMINI_API_KEY, TTS_API_KEY, settled[r])>>)
    /\ [][GEMINI_API_KEY' = GEMINI_API_KEY /\ TTS_API_KEY' = TTS_API_KEY]_vars

C10_Witness ==
    \E r1 \in Requests : \E r2 \in Requests :
        /\ r1 # r2 /\ Answered(r1) /\ pc[r2] = "json"
        /\ outbound[r1] # <<>>
        /\ settled[r1].state = "rejected" /\ settled[r2].state = "fulfilled"
        /\ sent[r1][1].status = 500

=============================================================================
